---- MODULE Spec2Model ----
(***************************************************************************)
(* Model of GamepadDemo (src/unnamed/part_000): the per-frame loop that    *)
(* samples the first gamepad, moves and rotates the rectangle, spawns      *)
(* projectiles under a cooldown, advances and retires them, and redraws.   *)
(*                                                                         *)
(* Numbers.  Lengths are integers in units of 1/Scale pixel and axis       *)
(* readings are integers in hundredths (100 = 1.0), so that the rectangle  *)
(* step axis * 5 px is exactly the reading in length units.  Angles are    *)
(* in whole degrees and only the directions listed in Atan2 occur; Cos and   *)
(* Sin are in thousandths and exact for them.  Times are milliseconds.     *)
(***************************************************************************)
EXTENDS Integers, Sequences, FiniteSets, TLC

\* canvas            width and height of the canvas, in pixels
\* gamepadState      the GamepadState record (lines 1-8, 33-40)
\* projectiles       the Projectile list; id is the spawn's serial number and
\*                   stands for the identity of the object
\* animationFrameId  the number of frames requested so far (line 235)
\* statusElement     what statusElement.textContent shows
\* scheduled         a frame callback is pending; false once gameLoop has
\*                   ended in an exception before requestAnimationFrame
\* drawn             the scene of the latest render()
\* gamepads          the list of the latest navigator.getGamepads() call
\* now               the clock (Date.now()) at the latest frame callback
\* ticks             the number of gameLoop runs so far
\* shotTimes         the Date.now() readings of the spawns so far
VARIABLES canvas, gamepadState, projectiles, animationFrameId, statusElement,
          scheduled, drawn, gamepads, now, ticks, shotTimes

vars == <<canvas, gamepadState, projectiles, animationFrameId, statusElement,
          scheduled, drawn, gamepads, now, ticks, shotTimes>>

\* ---------------------------------------------------------------- constants
Scale == 20
shootCooldown == 250
deadZone == 10
RectSize == 50
HalfRect == 25
MoveSpeed == 5
ProjectileSpeed == 8
CompactLimit == 100

\* ------------------------------------------------------------------ bounds
MaxTicks == 4
MaxHeldTicks == 104
StartTime == 1000

\* ----------------------------------------------------------------- helpers
Abs(n) == IF n < 0 THEN -n ELSE n

Min(a, b) == IF a < b THEN a ELSE b

Max(a, b) == IF a > b THEN a ELSE b

\* Math.atan2(v, h) in degrees, for the directions the inputs produce
Atan2(v, h) ==
    CASE v = 0 /\ h >= 0 -> 0
      [] v = 0 /\ h < 0 -> 180
      [] h = 0 /\ v > 0 -> 90
      [] h = 0 /\ v < 0 -> -90
      [] 3 * v = 4 * h /\ h > 0 -> 53
      [] 3 * v = -4 * h /\ h < 0 -> 127
      [] 3 * v = 4 * h /\ h < 0 -> -127
      [] 3 * v = -4 * h /\ h > 0 -> -53

\* Math.cos, in thousandths
Cos(a) ==
    CASE a = 0 -> 1000
      [] a = 180 -> -1000
      [] a \in {90, -90} -> 0
      [] a \in {53, -53} -> 600
      [] a \in {127, -127} -> -600

\* Math.sin, in thousandths
Sin(a) ==
    CASE a \in {0, 180} -> 0
      [] a = 90 -> 1000
      [] a = -90 -> -1000
      [] a \in {53, 127} -> 800
      [] a \in {-53, -127} -> -800

\* ------------------------------------------------------ the controller source
Null == [null |-> TRUE]

Gamepad(id, axes, buttons) ==
    [null |-> FALSE, id |-> id, axes |-> axes, buttons |-> buttons]

\* gamepad.axes[i] is a number (not undefined)
HasAxis(gamepad, i) == i + 1 <= Len(gamepad.axes)

\* gamepad.axes[i] || 0
AxisOrZero(gamepad, i) == IF HasAxis(gamepad, i) THEN gamepad.axes[i + 1] ELSE 0

\* gamepad.buttons[i]?.pressed, undefined counting as false
Pressed(gamepad, i) ==
    IF i + 1 <= Len(gamepad.buttons) THEN gamepad.buttons[i + 1] ELSE FALSE

ExceedsDeadZoneInclusive(gamepad, i) ==
    HasAxis(gamepad, i) /\ Abs(gamepad.axes[i + 1]) >= deadZone

\* Math.abs(gamepad.axes[i]) > deadZone; Math.abs(undefined) is NaN, never greater
ExceedsDeadZone(gamepad, i) ==
    HasAxis(gamepad, i) /\ Abs(gamepad.axes[i + 1]) > deadZone

\* button 6 is not among the candidates
rightTriggerTwo(gamepad) == Pressed(gamepad, 7) \/ Pressed(gamepad, 5)

\* lines 124-128
rightTrigger(gamepad) ==
    Pressed(gamepad, 7) \/ Pressed(gamepad, 5) \/ Pressed(gamepad, 6)

\* the last controller of the list is taken (no break)
LastGamepad(pads) ==
    IF \E i \in 1..Len(pads) : ~pads[i].null
    THEN CHOOSE i \in 1..Len(pads) :
            ~pads[i].null /\ \A j \in (i + 1)..Len(pads) : pads[j].null
    ELSE 0

\* index of the first non-null entry of the list, 0 when there is none
FirstGamepad(pads) ==
    IF \E i \in 1..Len(pads) : ~pads[i].null
    THEN CHOOSE i \in 1..Len(pads) :
            ~pads[i].null /\ \A j \in 1..(i - 1) : pads[j].null
    ELSE 0

\* horizontalAxis.toFixed(2) / verticalAxis.toFixed(2) on undefined: TypeError
Throws(gamepad) == ~HasAxis(gamepad, 0) \/ ~HasAxis(gamepad, 1)

\* ------------------------------------------------------------ shootProjectile
ShootProjectileNoCooldown(gs, projs, shots, t) ==
    [gs |-> [gs EXCEPT !.lastShotTime = t],
     projs |-> Append(projs,
                 [x |-> gs.x + HalfRect * Scale,
                  y |-> gs.y + HalfRect * Scale,
                  rotation |-> gs.rotation,
                  speed |-> ProjectileSpeed,
                  active |-> TRUE,
                  id |-> Len(shots) + 1]),
     shots |-> Append(shots, t)]

\* the cooldown test passes but the spawn time is not recorded
ShootProjectileNoRecord(gs, projs, shots, t) ==
    IF t - gs.lastShotTime > shootCooldown
    THEN [gs |-> gs,
          projs |-> Append(projs,
                      [x |-> gs.x + HalfRect * Scale,
                       y |-> gs.y + HalfRect * Scale,
                       rotation |-> gs.rotation,
                       speed |-> ProjectileSpeed,
                       active |-> TRUE,
                       id |-> Len(shots) + 1]),
          shots |-> Append(shots, t)]
    ELSE [gs |-> gs, projs |-> projs, shots |-> shots]

\* the projectile starts at the rectangle's corner instead of its center
ShootProjectileCorner(gs, projs, shots, t) ==
    IF t - gs.lastShotTime > shootCooldown
    THEN [gs |-> [gs EXCEPT !.lastShotTime = t],
          projs |-> Append(projs,
                      [x |-> gs.x, y |-> gs.y, rotation |-> gs.rotation,
                       speed |-> ProjectileSpeed, active |-> TRUE,
                       id |-> Len(shots) + 1]),
          shots |-> Append(shots, t)]
    ELSE [gs |-> gs, projs |-> projs, shots |-> shots]

\* a retired entry of the list is recycled for the new projectile
ShootProjectileReuse(gs, projs, shots, t) ==
    IF t - gs.lastShotTime > shootCooldown
    THEN [gs |-> [gs EXCEPT !.lastShotTime = t],
          projs |-> IF \E i \in 1..Len(projs) : ~projs[i].active
                    THEN LET k == CHOOSE i \in 1..Len(projs) : ~projs[i].active
                         IN  [projs EXCEPT ![k] =
                                [x |-> gs.x + HalfRect * Scale,
                                 y |-> gs.y + HalfRect * Scale,
                                 rotation |-> gs.rotation,
                                 speed |-> ProjectileSpeed,
                                 active |-> TRUE,
                                 id |-> projs[k].id]]
                    ELSE Append(projs,
                           [x |-> gs.x + HalfRect * Scale,
                            y |-> gs.y + HalfRect * Scale,
                            rotation |-> gs.rotation,
                            speed |-> ProjectileSpeed,
                            active |-> TRUE,
                            id |-> Len(shots) + 1]),
          shots |-> Append(shots, t)]
    ELSE [gs |-> gs, projs |-> projs, shots |-> shots]

\* lines 60-77; t is the reading of Date.now(), shots the spawn times so far
ShootProjectile(gs, projs, shots, t) ==
    IF t - gs.lastShotTime > shootCooldown
    THEN [gs |-> [gs EXCEPT !.lastShotTime = t],
          projs |-> Append(projs,
                      [x |-> gs.x + HalfRect * Scale,
                       y |-> gs.y + HalfRect * Scale,
                       rotation |-> gs.rotation,
                       speed |-> ProjectileSpeed,
                       active |-> TRUE,
                       id |-> Len(shots) + 1]),
          shots |-> Append(shots, t)]
    ELSE [gs |-> gs, projs |-> projs, shots |-> shots]

\* ---------------------------------------------------------- updateProjectiles
\* a projectile on the edge counts as gone
OffScreenInclusive(p, cv) ==
    p.x <= 0 \/ p.x >= cv.width * Scale \/ p.y <= 0 \/ p.y >= cv.height * Scale

\* lines 90-95
OffScreen(p, cv) ==
    p.x < 0 \/ p.x > cv.width * Scale \/ p.y < 0 \/ p.y > cv.height * Scale

Advance(p) ==
    [p EXCEPT !.x = p.x + (Cos(p.rotation) * p.speed * Scale) \div 1000,
              !.y = p.y + (Sin(p.rotation) * p.speed * Scale) \div 1000]

MoveProjectile(p, cv) ==
    IF p.active
    THEN LET q == Advance(p)
         IN  IF OffScreen(q, cv) THEN [q EXCEPT !.active = FALSE] ELSE q
    ELSE p

Filter(s) == SelectSeq(s, LAMBDA p : p.active)

\* dead entries are dropped in every update
UpdateProjectilesEager(projs, cv) ==
    Filter([i \in 1..Len(projs) |-> MoveProjectile(projs[i], cv)])

\* the result of filter() is dropped
UpdateProjectilesNoCompact(projs, cv) ==
    [i \in 1..Len(projs) |-> MoveProjectile(projs[i], cv)]

UpdateProjectiles(projs, cv) ==
    LET moved == [i \in 1..Len(projs) |-> MoveProjectile(projs[i], cv)]
    IN  IF Len(moved) > CompactLimit THEN Filter(moved) ELSE moved

\* --------------------------------------------------------- updateGamepadState
ClampToCanvas(v, bound) == Max(0, Min(bound * Scale, v))

\* Math.max(0, Math.min(bound - 50, v))
Clamp(v, bound) == Max(0, Min(bound * Scale - RectSize * Scale, v))

\* the rotation needs both right-stick axes outside the dead zone
MovedBothAxes(gs, gamepad, cv) ==
    LET x1 == IF ExceedsDeadZone(gamepad, 0)
              THEN gs.x + (gamepad.axes[1] * MoveSpeed * Scale) \div 100
              ELSE gs.x
        y1 == IF ExceedsDeadZone(gamepad, 1)
              THEN gs.y + (gamepad.axes[2] * MoveSpeed * Scale) \div 100
              ELSE gs.y
        rightHorizontalAxis == AxisOrZero(gamepad, 2)
        rightVerticalAxis == AxisOrZero(gamepad, 3)
        r1 == IF Abs(rightHorizontalAxis) > deadZone
                    /\ Abs(rightVerticalAxis) > deadZone
              THEN Atan2(rightVerticalAxis, rightHorizontalAxis)
              ELSE gs.rotation
    IN  [gs EXCEPT !.x = Clamp(x1, cv.width),
                   !.y = Clamp(y1, cv.height),
                   !.rotation = r1]

\* the state after the move, rotation and clamp of lines 133-151
Moved(gs, gamepad, cv) ==
    LET x1 == IF ExceedsDeadZone(gamepad, 0)
              THEN gs.x + (gamepad.axes[1] * MoveSpeed * Scale) \div 100
              ELSE gs.x
        y1 == IF ExceedsDeadZone(gamepad, 1)
              THEN gs.y + (gamepad.axes[2] * MoveSpeed * Scale) \div 100
              ELSE gs.y
        rightHorizontalAxis == AxisOrZero(gamepad, 2)
        rightVerticalAxis == AxisOrZero(gamepad, 3)
        r1 == IF Abs(rightHorizontalAxis) > deadZone
                    \/ Abs(rightVerticalAxis) > deadZone
              THEN Atan2(rightVerticalAxis, rightHorizontalAxis)
              ELSE gs.rotation
    IN  [gs EXCEPT !.x = Clamp(x1, cv.width),
                   !.y = Clamp(y1, cv.height),
                   !.rotation = r1]

StatusText(gamepad, gs, projs) ==
    [kind |-> "sample",
     id |-> gamepad.id,
     left |-> <<gamepad.axes[1], gamepad.axes[2]>>,
     right |-> <<AxisOrZero(gamepad, 2), AxisOrZero(gamepad, 3)>>,
     rotation |-> gs.rotation,
     trigger |-> rightTrigger(gamepad),
     count |-> Len(Filter(projs))]

\* the whole of updateGamepadState: the new state, list and status text, and
\* whether it ended in a TypeError (the status text is then not written)
UpdateGamepadState(gs, projs, shots, status, pads, t, cv) ==
    IF FirstGamepad(pads) = 0
    THEN [gs |-> gs, projs |-> projs, shots |-> shots, status |-> status,
          threw |-> FALSE]
    ELSE LET gamepad == pads[FirstGamepad(pads)]
             m == Moved(gs, gamepad, cv)
             s == IF rightTrigger(gamepad)
                  THEN ShootProjectile(m, projs, shots, t)
                  ELSE [gs |-> m, projs |-> projs, shots |-> shots]
             g == [s.gs EXCEPT !.shooting = rightTrigger(gamepad)]
         IN  [gs |-> g, projs |-> s.projs, shots |-> s.shots,
              status |-> IF Throws(gamepad) THEN status
                         ELSE StatusText(gamepad, g, s.projs),
              threw |-> Throws(gamepad)]

\* ---------------------------------------------------------------------- render
Render(gs, projs) ==
    [discs |-> [i \in 1..Len(Filter(projs)) |->
                  <<Filter(projs)[i].x, Filter(projs)[i].y>>],
     rect |-> <<gs.x + HalfRect * Scale, gs.y + HalfRect * Scale, gs.rotation>>,
     fill |-> IF gs.connected
              THEN (IF gs.shooting THEN "#e74c3c" ELSE "#3498db")
              ELSE "#ccc"]

\* -------------------------------------------------------------------- gameLoop
SampleAlways(gs, projs, shots, status, pads, t, cv) ==
    UpdateGamepadState(gs, projs, shots, status, pads, t, cv)

\* the controller is sampled whenever one is listed, whatever the flag says
SampleIfListed(gs, projs, shots, status, pads, t, cv) ==
    IF FirstGamepad(pads) # 0
    THEN UpdateGamepadState(gs, projs, shots, status, pads, t, cv)
    ELSE [gs |-> gs, projs |-> projs, shots |-> shots, status |-> status,
          threw |-> FALSE]

\* lines 223-226: the controller is sampled only while the flag is set
Sample(gs, projs, shots, status, pads, t, cv) ==
    IF gs.connected
    THEN UpdateGamepadState(gs, projs, shots, status, pads, t, cv)
    ELSE [gs |-> gs, projs |-> projs, shots |-> shots, status |-> status,
          threw |-> FALSE]

\* One frame callback, run d milliseconds after the previous one, with pads
\* being what navigator.getGamepads() returns during it.  gamepads keeps the
\* list of the latest call of navigator.getGamepads().
GameLoopStep(d, pads) ==
    LET t == now + d
        u == Sample(gamepadState, projectiles, shotTimes, statusElement,
                    pads, t, canvas)
    IN  /\ now' = t
        /\ gamepads' = IF gamepadState.connected THEN pads ELSE gamepads
        /\ ticks' = ticks + 1
        /\ gamepadState' = u.gs
        /\ shotTimes' = u.shots
        /\ statusElement' = u.status
        /\ IF u.threw
           THEN /\ projectiles' = u.projs
                /\ scheduled' = FALSE
                /\ UNCHANGED <<drawn, animationFrameId>>
           ELSE /\ projectiles' = UpdateProjectiles(u.projs, canvas)
                /\ drawn' = Render(u.gs, projectiles')
                /\ animationFrameId' = animationFrameId + 1
                /\ scheduled' = TRUE
        /\ UNCHANGED canvas

\* ------------------------------------------------------------------- handlers
OnGamepadConnected(id) ==
    /\ gamepadState' = [gamepadState EXCEPT !.connected = TRUE]
    /\ statusElement' = [kind |-> "connected", id |-> id]
    /\ UNCHANGED <<canvas, projectiles, animationFrameId, scheduled, drawn,
                   gamepads, now, ticks, shotTimes>>

OnGamepadDisconnectedResets ==
    /\ gamepadState' = [gamepadState EXCEPT !.connected = FALSE,
                                            !.shooting = FALSE]
    /\ statusElement' = [kind |-> "none"]
    /\ UNCHANGED <<canvas, projectiles, animationFrameId, scheduled, drawn,
                   gamepads, now, ticks, shotTimes>>

OnGamepadDisconnected ==
    /\ gamepadState' = [gamepadState EXCEPT !.connected = FALSE]
    /\ statusElement' = [kind |-> "none"]
    /\ UNCHANGED <<canvas, projectiles, animationFrameId, scheduled, drawn,
                   gamepads, now, ticks, shotTimes>>

\* ---------------------------------------------------------------- input sets
Canvases == {[width |-> 40, height |-> 60], [width |-> 60, height |-> 50],
             [width |-> 800, height |-> 600]}

PadIds == {"padA", "padB"}

Buttons(n, down) == [i \in 1..n |-> (i - 1) \in down]

\* controllers whose trigger is released: the shapes of the axes array
IdlePads ==
    {Gamepad("padA", a, Buttons(8, {0})) :
        a \in {<<>>, <<-100, -100>>, <<100, 10>>, <<10, 100>>,
               <<0, 0, 10, -10>>, <<0, 5, 0, 11>>, <<100, 100, -60, 80>>}}

\* controllers with one of the candidate buttons down
FiringPads ==
    {Gamepad("padA", <<0, 0>>, Buttons(6, {5})),
     Gamepad("padA", <<-100, 0, 100, 0>>, Buttons(7, {6})),
     Gamepad("padA", <<100, 100, 0, 100>>, Buttons(8, {0, 7})),
     Gamepad("padA", <<100>>, Buttons(8, {7}))}

\* a controller without buttons 5, 6 and 7
ShortPads == {Gamepad("padA", <<0, 100>>, Buttons(5, {4}))}

\* lists whose first controller is not in slot 0, or is followed by another
MixedLists ==
    {<<Null, Gamepad("padB", <<100, 100>>, Buttons(8, {7}))>>,
     <<Gamepad("padA", <<0, 0>>, <<>>),
       Gamepad("padB", <<-100, -100, 0, 100>>, Buttons(8, {7}))>>}

PadLists ==
    {<<>>, <<Null>>} \cup {<<p>> : p \in IdlePads \cup FiringPads \cup ShortPads}
      \cup MixedLists

\* milliseconds from one frame callback to the next
FrameMs == 16

\* a frame callback's inputs: the time since the previous callback and the
\* controller list; the long gaps are paired with the firing controllers
Inputs ==
    {[d |-> FrameMs, pads |-> l] : l \in PadLists}
      \cup {[d |-> e, pads |-> <<p>>] :
              e \in {shootCooldown, shootCooldown + 1}, p \in FiringPads}

\* ------------------------------------------------------------- specification
\* The state after the constructor: it ends with the first gameLoop() call,
\* which finds no controller and no projectile, draws, and requests a frame.
InitialState(cv) ==
    [x |-> (cv.width * Scale) \div 2 - HalfRect * Scale,
     y |-> (cv.height * Scale) \div 2 - HalfRect * Scale,
     rotation |-> 0,
     connected |-> FALSE,
     shooting |-> FALSE,
     lastShotTime |-> 0]

Init ==
    /\ canvas \in Canvases
    /\ gamepadState = InitialState(canvas)
    /\ projectiles = <<>>
    /\ animationFrameId = 1
    /\ statusElement = [kind |-> "initial"]
    /\ scheduled = TRUE
    /\ drawn = Render(gamepadState, projectiles)
    /\ gamepads = <<>>
    /\ now = StartTime
    /\ ticks = 1
    /\ shotTimes = <<>>

GameLoop ==
    /\ scheduled
    /\ ticks < MaxTicks
    /\ \E in \in Inputs : GameLoopStep(in.d, in.pads)

Connected == \E id \in PadIds : OnGamepadConnected(id)

Disconnected == OnGamepadDisconnected

Next == GameLoop \/ Connected \/ Disconnected

Spec == Init /\ [][Next]_vars

\* ---------------------------------------------- the trigger held down for long
\* The same program driven by one controller whose trigger stays pressed, with
\* a frame callback every HeldMs milliseconds, so that every sampled frame
\* spawns a projectile and the list grows past CompactLimit.
HeldCanvases == {[width |-> 60, height |-> 50], [width |-> 1700, height |-> 50]}

HeldMs == shootCooldown + 1

HeldPads == <<Gamepad("padA", <<0, 0, 100, 0>>, Buttons(8, {7}))>>

InitHeld ==
    /\ canvas \in HeldCanvases
    /\ gamepadState = InitialState(canvas)
    /\ projectiles = <<>>
    /\ animationFrameId = 1
    /\ statusElement = [kind |-> "initial"]
    /\ scheduled = TRUE
    /\ drawn = Render(gamepadState, projectiles)
    /\ gamepads = <<>>
    /\ now = StartTime
    /\ ticks = 1
    /\ shotTimes = <<>>

GameLoopHeld ==
    /\ scheduled
    /\ ticks < MaxHeldTicks
    /\ GameLoopStep(HeldMs, HeldPads)

NextHeld == GameLoopHeld \/ Connected

SpecHeld == InitHeld /\ [][NextHeld]_vars

\* ------------------------------------------- held triggers in every direction
\* The trigger held as in SpecHeld, on canvases where the projectiles reach the
\* edges exactly, with the right stick held in one of four directions for the
\* whole run; at any frame the controller may be replaced by one that exposes a
\* single axis.
EdgeCanvases == {[width |-> 64, height |-> 64], [width |-> 20, height |-> 64]}

EdgePadLists ==
    {<<Gamepad("padA", <<0, 0, rh, rv>>, Buttons(8, {7}))>> :
        <<rh, rv>> \in {<<100, 0>>, <<-100, 0>>, <<-60, 80>>, <<60, -80>>}}

BrokenPads == <<Gamepad("padA", <<100>>, Buttons(8, {7}))>>

InitEdge ==
    /\ canvas \in EdgeCanvases
    /\ gamepadState = InitialState(canvas)
    /\ projectiles = <<>>
    /\ animationFrameId = 1
    /\ statusElement = [kind |-> "initial"]
    /\ scheduled = TRUE
    /\ drawn = Render(gamepadState, projectiles)
    /\ gamepads = <<>>
    /\ now = StartTime
    /\ ticks = 1
    /\ shotTimes = <<>>

GameLoopEdge ==
    /\ scheduled
    /\ ticks < MaxHeldTicks
    /\ \E l \in EdgePadLists :
          /\ gamepads \in {<<>>, l}
          /\ GameLoopStep(HeldMs, l)

GameLoopBroken ==
    /\ scheduled
    /\ ticks < MaxHeldTicks
    /\ GameLoopStep(HeldMs, BrokenPads)

NextEdge == GameLoopEdge \/ GameLoopBroken \/ Connected

SpecEdge == InitEdge /\ [][NextEdge]_vars

\* ===================================================================== claims
\* a step in which gameLoop ran
TickStep == ticks' = ticks + 1

\* a gameLoop step in which updateGamepadState found a controller
SampledStep ==
    TickStep /\ gamepadState.connected /\ FirstGamepad(gamepads') # 0

LiveCount(projs) == Len(Filter(projs))

Ids(projs) == {projs[i].id : i \in 1..Len(projs)}

\* ------------------------------------------------------------------------ C1
\* C1 as stated: a tick with the connectivity flag false leaves the position,
\* the orientation and the projectile list unchanged.
C1_Original ==
    [][(TickStep /\ ~gamepadState.connected) =>
          /\ gamepadState'.x = gamepadState.x
          /\ gamepadState'.y = gamepadState.y
          /\ gamepadState'.rotation = gamepadState.rotation
          /\ projectiles' = projectiles]_vars

\* C1 amended: a tick with the connectivity flag false leaves the whole
\* controller state unchanged and spawns nothing, but updateProjectiles still
\* runs: no entry is added, and the list is unchanged only when it holds no
\* live projectile and at most CompactLimit entries.
C1_DisconnectedTick ==
    [][(TickStep /\ ~gamepadState.connected) =>
          /\ gamepadState' = gamepadState
          /\ shotTimes' = shotTimes
          /\ statusElement' = statusElement
          /\ Ids(projectiles') \subseteq Ids(projectiles)
          /\ (LiveCount(projectiles) = 0 /\ Len(projectiles) <= CompactLimit)
                => projectiles' = projectiles
          /\ scheduled']_vars

\* a frame drawn with the flag false while a projectile was in flight
C1_Witness ==
    /\ ticks > 1
    /\ ~gamepadState.connected
    /\ drawn.fill = "#ccc"
    /\ Len(drawn.discs) >= 1

\* ------------------------------------------------------------------------ C2
InBounds ==
    /\ 0 <= gamepadState.x
    /\ gamepadState.x <= (canvas.width - RectSize) * Scale
    /\ 0 <= gamepadState.y
    /\ gamepadState.y <= (canvas.height - RectSize) * Scale

\* C2 as stated: for every canvas size the rectangle's coordinates lie in
\* [0, width - 50] x [0, height - 50] after every tick.
C2_Original == (ticks > 1) => InBounds

\* C2 amended: for every canvas at least as wide and as high as the rectangle
\* (50), the coordinates lie in [0, width - 50] x [0, height - 50].
C2_PositionInBounds ==
    (canvas.width >= RectSize /\ canvas.height >= RectSize) => InBounds

\* the rectangle pushed against the right edge by a full deflection
C2_Witness ==
    /\ canvas.width >= RectSize /\ canvas.height >= RectSize
    /\ statusElement.kind = "sample"
    /\ statusElement.left[1] = 100
    /\ gamepadState.x = (canvas.width - RectSize) * Scale
    /\ ticks >= 3

\* ------------------------------------------------------------------------ C3
\* C3: any two projectiles were spawned more than shootCooldown milliseconds
\* apart, so two fire attempts less than the cooldown apart spawn at most one,
\* and lastShotTime is the time of the latest spawn.
C3_Cooldown ==
    /\ \A i \in 1..Len(shotTimes) : \A j \in (i + 1)..Len(shotTimes) :
          shotTimes[j] - shotTimes[i] > shootCooldown
    /\ gamepadState.lastShotTime =
          (IF shotTimes = <<>> THEN 0 ELSE shotTimes[Len(shotTimes)])

\* a second fire attempt inside the cooldown that spawned nothing
C3_Witness ==
    /\ Len(shotTimes) = 1
    /\ statusElement.kind = "sample"
    /\ statusElement.trigger
    /\ gamepadState.shooting
    /\ now > gamepadState.lastShotTime
    /\ now - gamepadState.lastShotTime < shootCooldown
    /\ Len(projectiles) = 1

\* ------------------------------------------------------------------------ C4
\* the controller sampled in this step
Sampled == gamepads'[FirstGamepad(gamepads')]

\* the fire signal of a step: a sampled tick with a candidate button down
FireStep == SampledStep /\ rightTrigger(Sampled)

\* one projectile is appended and its time recorded
SpawnEffect ==
    /\ shotTimes' = Append(shotTimes, now')
    /\ gamepadState'.lastShotTime = now'
    /\ Ids(projectiles') \ Ids(projectiles) \subseteq {Len(shotTimes')}
    /\ Len(projectiles) < CompactLimit =>
          /\ Len(projectiles') = Len(projectiles) + 1
          /\ Len(shotTimes') \in Ids(projectiles')

NoSpawnEffect ==
    /\ shotTimes' = shotTimes
    /\ gamepadState'.lastShotTime = gamepadState.lastShotTime
    /\ Ids(projectiles') \subseteq Ids(projectiles)

\* C4 as stated: a fire signal with at least shootCooldown milliseconds since
\* the last spawn creates one projectile and records the time; every other
\* step creates none and keeps lastShotTime.
C4_Original ==
    [][IF FireStep /\ now' - gamepadState.lastShotTime >= shootCooldown
       THEN SpawnEffect ELSE NoSpawnEffect]_vars

\* C4 amended: a fire signal with more than shootCooldown milliseconds since
\* the last spawn creates one projectile and records the time; every other
\* step (also one exactly shootCooldown after the last spawn) creates none and
\* keeps lastShotTime.
C4_SpawnRule ==
    [][IF FireStep /\ now' - gamepadState.lastShotTime > shootCooldown
       THEN SpawnEffect ELSE NoSpawnEffect]_vars

\* a second projectile spawned as soon as the cooldown allowed it
C4_Witness ==
    /\ Len(shotTimes) = 2
    /\ shotTimes[2] - shotTimes[1] = shootCooldown + 1
    /\ gamepadState.lastShotTime = now
    /\ gamepadState.shooting
    /\ Len(projectiles) = 2

\* ------------------------------------------------------------------------ C5
DeadIds(projs) == {projs[i].id : i \in {k \in 1..Len(projs) : ~projs[k].active}}

LiveIds(projs) == {projs[i].id : i \in {k \in 1..Len(projs) : projs[k].active}}

\* C5: in no step (update, spawn, compaction, notification) does a projectile
\* that is not live become live.
C5_LivenessMonotonic ==
    [][DeadIds(projectiles) \cap LiveIds(projectiles') = {}]_vars

\* a projectile retired several spawns ago and still stored, not live
C5_Witness ==
    \E i \in 1..Len(projectiles) :
        /\ ~projectiles[i].active
        /\ projectiles[i].id + 6 <= Len(shotTimes)

\* ------------------------------------------------------------------------ C6
\* the stored count when updateProjectiles starts in this step
EnteringLen == Len(projectiles) + (Len(shotTimes') - Len(shotTimes))

\* a step in which updateProjectiles ran
UpdateStep == TickStep /\ scheduled'

\* the stored projectiles that are live and stay on screen in this update
StayingIds ==
    {projectiles[i].id :
        i \in {k \in 1..Len(projectiles) :
                 /\ projectiles[k].active
                 /\ ~OffScreen(Advance(projectiles[k]), canvas)}}

\* C6 as stated: an update that starts with more than CompactLimit stored
\* projectiles strictly reduces the stored count, to the number of live ones.
C6_Original ==
    [][(UpdateStep /\ EnteringLen > CompactLimit) =>
          /\ Len(projectiles') < EnteringLen
          /\ Len(projectiles') = LiveCount(projectiles')]_vars

\* C6 amended: an update that starts with more than CompactLimit stored
\* projectiles leaves exactly the projectiles that are live after its
\* movement pass; the count is strictly reduced when one of the stored
\* projectiles is dead by then, and unchanged when all of them are live.
C6_Compaction ==
    [][(UpdateStep /\ EnteringLen > CompactLimit) =>
          /\ Len(projectiles') = LiveCount(projectiles')
          /\ StayingIds \subseteq Ids(projectiles')
          /\ Len(projectiles') <= EnteringLen
          /\ (Len(projectiles') < EnteringLen) <=>
                (LiveCount(projectiles) < Len(projectiles)
                   \/ StayingIds # LiveIds(projectiles))]_vars

\* the update of the 101st spawn has dropped the retired projectiles
C6_Witness ==
    /\ Len(shotTimes) = CompactLimit + 1
    /\ Len(projectiles) < CompactLimit
    /\ Len(projectiles) = LiveCount(projectiles)
    /\ Len(projectiles) >= 1

\* ------------------------------------------------------------------------ C7
\* the controller with every missing reading replaced by zero / not pressed
ZeroFilled(gamepad) ==
    [gamepad EXCEPT !.axes = [i \in 1..4 |-> AxisOrZero(gamepad, i - 1)],
                    !.buttons = [i \in 1..8 |-> Pressed(gamepad, i - 1)]]

MissesReading(gamepad) == Len(gamepad.axes) < 4 \/ Len(gamepad.buttons) < 8

\* what the tick does to the state when it reads the zero-filled controller
AsIfZero ==
    UpdateGamepadState(gamepadState, projectiles, shotTimes, statusElement,
                       <<ZeroFilled(Sampled)>>, now', canvas)

\* C7: a sampled tick whose controller lacks one of the axes 0..3 or of the
\* buttons 5, 6, 7 completes, changes the state as it would for a zero
\* reading, and requests the next tick.
C7_MissingReadingIsZero ==
    [][(SampledStep /\ MissesReading(Sampled)) =>
          /\ gamepadState' = AsIfZero.gs
          /\ projectiles' = UpdateProjectiles(AsIfZero.projs, canvas)
          /\ scheduled'
          /\ animationFrameId' = animationFrameId + 1]_vars

\* ------------------------------------------------------------------------ C8
\* C8: in a sampled tick a left-stick reading of magnitude at most deadZone
\* adds nothing to its coordinate (which is then only clamped: unchanged when
\* it was inside the bounds), whatever the other axis reads.
C8_DeadZone ==
    [][SampledStep =>
          /\ (HasAxis(Sampled, 0) /\ Abs(Sampled.axes[1]) <= deadZone) =>
                /\ gamepadState'.x = Clamp(gamepadState.x, canvas.width)
                /\ (0 <= gamepadState.x
                       /\ gamepadState.x <= (canvas.width - RectSize) * Scale)
                      => gamepadState'.x = gamepadState.x
          /\ (HasAxis(Sampled, 1) /\ Abs(Sampled.axes[2]) <= deadZone) =>
                /\ gamepadState'.y = Clamp(gamepadState.y, canvas.height)
                /\ (0 <= gamepadState.y
                       /\ gamepadState.y <= (canvas.height - RectSize) * Scale)
                      => gamepadState'.y = gamepadState.y]_vars

\* the first sampled tick read exactly 0.1 on x and 1.0 on y: x kept, y moved
C8_Witness ==
    /\ ticks = 2
    /\ statusElement.kind = "sample"
    /\ statusElement.left = <<deadZone, 100>>
    /\ gamepadState.x = InitialState(canvas).x
    /\ gamepadState.y = InitialState(canvas).y + MoveSpeed * Scale

\* ------------------------------------------------------------------------ C9
\* C9: a step that is not a tick (a connect or disconnect notification)
\* changes nothing but the connectivity flag and the status text: connect
\* sets the flag and shows a controller id, disconnect clears it and shows
\* the no-controller message.
C9_HandlersFrame ==
    [][~TickStep =>
          /\ gamepadState' = [gamepadState EXCEPT
                                 !.connected = gamepadState'.connected]
          /\ UNCHANGED <<canvas, projectiles, animationFrameId, scheduled,
                         drawn, gamepads, now, ticks, shotTimes>>
          /\ \/ /\ gamepadState'.connected
                /\ statusElement'.kind = "connected"
                /\ statusElement'.id \in PadIds
             \/ /\ ~gamepadState'.connected
                /\ statusElement' = [kind |-> "none"]]_vars

\* disconnected while firing with a projectile in flight: all of it is kept
C9_Witness ==
    /\ ~gamepadState.connected
    /\ statusElement = [kind |-> "none"]
    /\ gamepadState.shooting
    /\ gamepadState.lastShotTime = now
    /\ LiveCount(projectiles) >= 1
    /\ drawn.fill = "#e74c3c"

\* ----------------------------------------------------------------------- C10
\* the projectile spawned in this step
Newest == projectiles'[CHOOSE i \in 1..Len(projectiles') :
                          projectiles'[i].id = Len(shotTimes')]

\* C10: a spawned projectile has the rectangle's orientation and speed 8 and
\* starts live at the center of the rectangle as moved and clamped in this
\* tick: it is there when updateProjectiles did not run after the spawn, and
\* one step further when it did.  An update moves every live projectile of
\* angle 0 by exactly the speed along x and not along y.
C10_SpawnAndAdvance ==
    [][TickStep =>
          /\ (Len(shotTimes') = Len(shotTimes) + 1
                 /\ Len(shotTimes') \in Ids(projectiles')) =>
                /\ Newest.rotation = gamepadState'.rotation
                /\ Newest.speed = ProjectileSpeed
                /\ ~scheduled' =>
                      /\ Newest.active
                      /\ Newest.x = gamepadState'.x + HalfRect * Scale
                      /\ Newest.y = gamepadState'.y + HalfRect * Scale
                /\ (scheduled' /\ Newest.rotation = 0) =>
                      /\ Newest.x = gamepadState'.x + HalfRect * Scale
                                       + ProjectileSpeed * Scale
                      /\ Newest.y = gamepadState'.y + HalfRect * Scale
                /\ (scheduled' /\ Newest.rotation = 90) =>
                      /\ Newest.x = gamepadState'.x + HalfRect * Scale
                      /\ Newest.y = gamepadState'.y + HalfRect * Scale
                                       + ProjectileSpeed * Scale
          /\ scheduled' =>
                \A i \in 1..Len(projectiles) :
                    (projectiles[i].active /\ projectiles[i].rotation = 0) =>
                        /\ projectiles'[i].id = projectiles[i].id
                        /\ projectiles'[i].x =
                              projectiles[i].x + ProjectileSpeed * Scale
                        /\ projectiles'[i].y = projectiles[i].y]_vars

\* the 800 x 600 example: spawned at (400, 300) with angle 0, now at (408, 300)
C10_Witness ==
    /\ canvas = [width |-> 800, height |-> 600]
    /\ Len(projectiles) = 1
    /\ projectiles[1].active
    /\ projectiles[1].rotation = 0
    /\ projectiles[1].x = 408 * Scale
    /\ projectiles[1].y = 300 * Scale
    /\ gamepadState.x = 375 * Scale
    /\ gamepadState.y = 275 * Scale

\* ----------------------------------------------------------------------- C11
\* C11: every tick samples (only with the flag set), then updates the
\* projectiles, then renders that state, then requests exactly one frame: after
\* every tick a frame is pending, the scene drawn is the one of the state the
\* tick leaves, and a projectile spawned in the tick has been advanced once.
C11_TickOrder ==
    [][TickStep =>
          /\ ~gamepadState.connected => gamepadState' = gamepadState
          /\ drawn' = Render(gamepadState', projectiles')
          /\ animationFrameId' = animationFrameId + 1
          /\ scheduled'
          /\ (Len(shotTimes') = Len(shotTimes) + 1
                 /\ Len(shotTimes') \in Ids(projectiles')) =>
                (Newest.x # gamepadState'.x + HalfRect * Scale
                   \/ Newest.y # gamepadState'.y + HalfRect * Scale)]_vars

\* ----------------------------------------------------------------------- C12
\* the position of p after its step of speed * cos / sin, inside the canvas,
\* edges included
LandsInside(p) ==
    LET nx == p.x + (Cos(p.rotation) * p.speed * Scale) \div 1000
        ny == p.y + (Sin(p.rotation) * p.speed * Scale) \div 1000
    IN  /\ 0 <= nx /\ nx <= canvas.width * Scale
        /\ 0 <= ny /\ ny <= canvas.height * Scale

\* the ids of the projectiles spawned in this step
NewIds == (Len(shotTimes) + 1)..Len(shotTimes')

\* C12: after an update the live projectiles are exactly those that were live
\* and whose advanced position is inside [0, width] x [0, height], edges
\* included (and the one just spawned, if it lands inside): a projectile is
\* retired in the very update that takes it outside, and in no other.
C12_RetireOutside ==
    [][UpdateStep =>
          /\ LiveIds(projectiles') \ NewIds =
               {projectiles[i].id :
                  i \in {k \in 1..Len(projectiles) :
                           projectiles[k].active /\ LandsInside(projectiles[k])}}
          /\ EnteringLen <= CompactLimit =>
               (Ids(projectiles') \ LiveIds(projectiles')) \ NewIds =
                 DeadIds(projectiles)
                   \cup {projectiles[i].id :
                           i \in {k \in 1..Len(projectiles) :
                                    /\ projectiles[k].active
                                    /\ ~LandsInside(projectiles[k])}}]_vars

\* a live projectile exactly on one of the four edges, others already retired
C12_Witness ==
    /\ canvas = [width |-> 64, height |-> 64]
    /\ \E i \in 1..Len(projectiles) :
         /\ projectiles[i].active
         /\ \/ projectiles[i].x = canvas.width * Scale
            \/ projectiles[i].x = 0
            \/ projectiles[i].y = canvas.height * Scale
            \/ projectiles[i].y = 0
    /\ \E i \in 1..Len(projectiles) : ~projectiles[i].active

\* ----------------------------------------------------------------------- C13
IdSeq(projs) == [i \in 1..Len(projs) |-> projs[i].id]

\* the stored projectiles that are live after this update's movement pass
LandingIds ==
    {projectiles[i].id :
        i \in {k \in 1..Len(projectiles) :
                 projectiles[k].active /\ LandsInside(projectiles[k])}}

\* C13: an update whose list has at most CompactLimit entries removes nothing
\* and keeps the order; an update whose list has more drops every entry that
\* is dead after the movement pass and nothing else, keeping the order; no
\* other step removes an entry; a live entry is never removed.
C13_LazyCompaction ==
    [][/\ (UpdateStep /\ EnteringLen <= CompactLimit) =>
             IdSeq(projectiles') =
               IdSeq(projectiles) \o [i \in 1..Cardinality(NewIds) |->
                                        Len(shotTimes) + i]
       /\ (UpdateStep /\ EnteringLen > CompactLimit) =>
             /\ Ids(projectiles') \ NewIds = LandingIds
             /\ LiveCount(projectiles') = Len(projectiles')
       /\ ~UpdateStep => Ids(projectiles) \subseteq Ids(projectiles')
       /\ UpdateStep => LandingIds \subseteq Ids(projectiles')
       /\ \A i \in 1..(Len(projectiles') - 1) :
             projectiles'[i].id < projectiles'[i + 1].id]_vars

\* CompactLimit entries stored after an update, most of them dead, none removed
C13_Witness ==
    /\ Len(projectiles) = CompactLimit
    /\ Len(shotTimes) = CompactLimit
    /\ LiveCount(projectiles) < Len(projectiles)
    /\ scheduled
    /\ projectiles[1].id = 1

\* ----------------------------------------------------------------------- C14
\* the right-stick readings of the sampled controller, missing ones as zero
RightStick ==
    <<IF Len(Sampled.axes) >= 3 THEN Sampled.axes[3] ELSE 0,
      IF Len(Sampled.axes) >= 4 THEN Sampled.axes[4] ELSE 0>>

\* C14: in a sampled tick with a right-stick axis of magnitude above deadZone
\* the orientation becomes atan2(vertical, horizontal); in every other step
\* (both axes within the dead zone, tick not sampled, notification) it keeps
\* its value.
C14_SampleAndHold ==
    [][IF SampledStep /\ (Abs(RightStick[1]) > deadZone
                            \/ Abs(RightStick[2]) > deadZone)
       THEN gamepadState'.rotation = Atan2(RightStick[2], RightStick[1])
       ELSE gamepadState'.rotation = gamepadState.rotation]_vars

\* an orientation of 90 degrees held through a tick that read (0.1, -0.1)
C14_Witness ==
    /\ statusElement.kind = "sample"
    /\ statusElement.right = <<deadZone, -deadZone>>
    /\ statusElement.rotation = 90
    /\ gamepadState.rotation = 90

\* ----------------------------------------------------------------------- C15
\* one of the buttons 7, 5, 6 exists on the sampled controller and is pressed
CandidateDown ==
    \E k \in {8, 6, 7} : k <= Len(Sampled.buttons) /\ Sampled.buttons[k]

\* C15: after a sampled tick the firing flag is true exactly when one of the
\* buttons 7, 5, 6 is pressed, whether or not a projectile was spawned, and a
\* projectile is spawned only then.
C15_FireSignal ==
    [][SampledStep =>
          /\ gamepadState'.shooting = CandidateDown
          /\ Len(shotTimes') > Len(shotTimes) => CandidateDown]_vars

\* button 6 alone held inside the cooldown: firing flag set, nothing spawned
C15_Witness ==
    /\ gamepadState.connected
    /\ gamepads = <<Gamepad("padA", <<-100, 0, 100, 0>>, Buttons(7, {6}))>>
    /\ gamepadState.shooting
    /\ Len(shotTimes) = 1
    /\ gamepadState.lastShotTime < now
    /\ statusElement.kind = "sample"
    /\ statusElement.trigger

\* ----------------------------------------------------------------------- C16
RECURSIVE OnlyFirst(_)
\* the list cut down to its first non-empty entry (empty when there is none)
OnlyFirst(pads) ==
    IF pads = <<>> THEN <<>>
    ELSE IF Head(pads).null THEN OnlyFirst(Tail(pads))
    ELSE <<Head(pads)>>

\* what the sampling does when it is given the first controller alone
FromFirstAlone ==
    UpdateGamepadState(gamepadState, projectiles, shotTimes, statusElement,
                       OnlyFirst(gamepads'), now', canvas)

\* C16: a tick with the flag set changes the controller state, the spawns and
\* the status text exactly as if the list held its first non-empty entry
\* alone, whatever the later entries read; with no non-empty entry it changes
\* none of them.
C16_FirstControllerOnly ==
    [][(TickStep /\ gamepadState.connected) =>
          /\ gamepadState' = FromFirstAlone.gs
          /\ shotTimes' = FromFirstAlone.shots
          /\ statusElement' = FromFirstAlone.status
          /\ OnlyFirst(gamepads') = <<>> =>
                /\ gamepadState' = gamepadState
                /\ shotTimes' = shotTimes
                /\ statusElement' = statusElement
                /\ scheduled']_vars

\* a second controller pushing the stick and holding the trigger is ignored
C16_Witness ==
    /\ Len(gamepads) = 2
    /\ ~gamepads[1].null
    /\ rightTrigger(gamepads[2])
    /\ statusElement.kind = "sample"
    /\ statusElement.id = "padA"
    /\ ~gamepadState.shooting
    /\ shotTimes = <<>>
    /\ gamepadState.x = InitialState(canvas).x
    /\ gamepadState.rotation = 0
    /\ ticks = 2

\* ----------------------------------------------------------------------- C17
\* C17: at the end of every tick the list holds at most CompactLimit entries
\* or only live ones, so that it never keeps more than CompactLimit dead ones.
C17_BoundedDead ==
    /\ Len(projectiles) <= CompactLimit \/ LiveCount(projectiles) = Len(projectiles)
    /\ Len(projectiles) - LiveCount(projectiles) <= CompactLimit

\* ----------------------------------------------------------------------- C18
\* C18: at the end of every tick every live projectile is inside
\* [0, width] x [0, height].
C18_LiveInsideCanvas ==
    \A i \in 1..Len(projectiles) :
        projectiles[i].active =>
            /\ 0 <= projectiles[i].x
            /\ projectiles[i].x <= canvas.width * Scale
            /\ 0 <= projectiles[i].y
            /\ projectiles[i].y <= canvas.height * Scale

\* ----------------------------------------------------------------------- C19
\* C19: the connectivity flag is what the latest notification made it (set by
\* connect, cleared by disconnect, never touched by a tick), and while it is
\* clear no tick polls the controllers, whichever are listed: the firing flag
\* and the last-shot time keep their values and nothing is spawned.
C19_FlagFollowsNotification ==
    [][/\ TickStep => gamepadState'.connected = gamepadState.connected
       /\ ~TickStep =>
             gamepadState'.connected = (statusElement'.kind = "connected")
       /\ (TickStep /\ ~gamepadState.connected) =>
             /\ gamepads' = gamepads
             /\ gamepadState'.shooting = gamepadState.shooting
             /\ gamepadState'.lastShotTime = gamepadState.lastShotTime
             /\ Len(shotTimes') = Len(shotTimes)]_vars

\* disconnected while firing, with the controller still listed: a later tick
\* has kept the firing flag and the last-shot time
C19_Witness ==
    /\ ~gamepadState.connected
    /\ statusElement = [kind |-> "none"]
    /\ FirstGamepad(gamepads) # 0
    /\ rightTrigger(gamepads[FirstGamepad(gamepads)])
    /\ gamepadState.shooting
    /\ gamepadState.lastShotTime > 0
    /\ gamepadState.lastShotTime < now
    /\ drawn.fill = "#ccc"

====
